---- MODULE Spec2Model ----
(***************************************************************************)
(* Model of DozlabSessionManager                                           *)
(* (examples/kubernetes-api/python/create_session.py): create_session with *)
(* its rollback, delete_session, get_session_status and list_sessions, run *)
(* against a Kubernetes namespace whose API server may accept or reject    *)
(* every request.                                                          *)
(*                                                                         *)
(* One step of the model is one request to the API server (or the local    *)
(* handling of one rendered document); a command is a sequence of steps.   *)
(***************************************************************************)
EXTENDS Integers, Sequences, FiniteSets, TLC

(* ------------------------------ bounds -------------------------------- *)
\* number of command-line invocations that may exist at once
NumProcs == 2
\* longest template, in documents
MaxDocs == 3

Procs == 1..NumProcs

(* ------------------------------ inputs -------------------------------- *)
\* session ids are strings; a string is a sequence of pieces
SessionIds == {<<"a">>, <<"b">>}
UserIds == {"alice", "bob"}
\* how often a caller may call delete_session in a row
MaxCalls == 2
\* longest session id the naming is examined for, in pieces
MaxIdLen == 2
\* kwargs.get('vscode_password'): absent, empty, or a supplied value
NoPassword == "<absent>"
PasswordArgs == {NoPassword, "", "pw"}
\* values secrets.token_urlsafe may return
GeneratedTokens == {"tok"}

NoUser == "<none>"
NoData == "<none>"
\* the session-id label of a resource that has none
NoSession == <<>>

\* kinds of document yaml.safe_load_all can yield: a mapping of kind Pod,
\* Service or Secret, a mapping of another kind, a null document, and a
\* document that is not a mapping (a scalar or a list)
KindSet == {"Pod", "Service", "Secret"}
DocKinds == KindSet \cup {"ConfigMap", "Null", "Scalar"}

\* the template file read by __init__, as its sequence of documents
Templates == UNION {[1..n -> DocKinds] : n \in 1..MaxDocs}

\* a stretch of the manifest that yaml cannot parse as a document
Malformed == "Malformed"
\* the manifests safe_substitute can hand to yaml.safe_load_all
Manifests == UNION {[1..n -> DocKinds \cup {Malformed}] : n \in 1..MaxDocs}
\* yaml.safe_load_all yields every document of the manifest
WellFormed(manifest) == \A i \in 1..Len(manifest) : manifest[i] # Malformed

(* ------------------------------ naming -------------------------------- *)
\* the pod name leaves the session id out
pod_name_without_id(session_id) == <<"lab-session-", "session">>

\* the service name keeps the first piece of the session id only
service_name_truncated(session_id) == <<"lab-service-", session_id[1]>>

pod_name(session_id) == <<"lab-session-">> \o session_id
service_name(session_id) == <<"lab-service-">> \o session_id
secret_name(session_id) == <<"lab-session-">> \o session_id \o <<"-secrets">>

\* the name delete_session addresses for each kind
CanonicalName(kind, session_id) ==
    CASE kind = "Pod" -> pod_name(session_id)
      [] kind = "Service" -> service_name(session_id)
      [] kind = "Secret" -> secret_name(session_id)

\* metadata.name of a document of the template after substitution
TemplateName(kind, session_id) ==
    CASE kind = "Pod" -> <<"lab-session-">> \o session_id
      [] kind = "Service" -> <<"lab-service-">> \o session_id
      [] kind = "Secret" -> <<"lab-session-">> \o session_id \o <<"-secrets">>
      [] OTHER -> <<"other-">> \o session_id

\* the key create_session stores an acknowledgment under
CreatedKey(kind) ==
    CASE kind = "Pod" -> "pod"
      [] kind = "Service" -> "service"
      [] kind = "Secret" -> "secret"

(* ----------------------------- rendering ------------------------------ *)
\* kwargs.get('vscode_password') or self._generate_password()
ResolvePassword(arg, token) ==
    IF arg = NoPassword \/ arg = "" THEN token ELSE arg

\* one document of the template with the variables substituted
RenderDoc(kind, session_id, user_id, password) ==
    [kind |-> kind,
     name |-> TemplateName(kind, session_id),
     user |-> IF kind = "Pod" THEN user_id ELSE NoUser,
     data |-> IF kind = "Secret" THEN password ELSE NoData,
     session |-> IF kind = "Pod" THEN session_id ELSE NoSession,
     app |-> kind = "Pod"]

Render(template, session_id, user_id, password) ==
    [i \in 1..Len(template) |-> RenderDoc(template[i], session_id, user_id, password)]

(* ------------------------------ errors -------------------------------- *)
NoError == [type |-> "none", status |-> 0, op |-> "none", kind |-> "none"]
ApiException(status, op, kind) ==
    [type |-> "ApiException", status |-> status, op |-> op, kind |-> kind]
AttributeError(kind) ==
    [type |-> "AttributeError", status |-> 0, op |-> "get", kind |-> kind]
\* what yaml.safe_load_all raises on a malformed manifest
YAMLError == [type |-> "YAMLError", status |-> 0, op |-> "parse", kind |-> "none"]

\* statuses the API server answers a refused request with
Conflict == 409
NotFound == 404
ServerError == 500

(* ------------------------------- state -------------------------------- *)
VARIABLES
    cluster,          \* the resources of the namespace
    pc,               \* per invocation: where it is
    cmd,              \* per invocation: the command it runs
    session_id,       \* argument of the command
    user_id,          \* argument of create
    vscode_password,  \* the resolved credential
    resources,        \* the rendered documents
    idx,              \* position of the for loop in resources
    created,          \* the dict create_session accumulates
    pending,          \* the exception create_session is handling
    deleted,          \* the list delete_session accumulates
    warnings,         \* the warnings delete_session printed
    report,           \* the closing line the command printed
    outcome,          \* how the command ended: "returned" or "raised"
    retval,           \* the value create_session returned
    raised,           \* the exception that left the command
    creates,          \* log: the create requests this command issued
    deletes,          \* log: the delete requests this delete_session issued
    calls,            \* log: how many calls of delete_session the caller made
    prev,             \* log: summary of the caller's previous delete_session
    pod,              \* the answer get_session_status got to its read request
    session_status,   \* the value get_session_status returned
    items,            \* pods.items, the value list_sessions returned
    printed           \* the rows of the table list_sessions printed

vars == <<cluster, pc, cmd, session_id, user_id, vscode_password, resources, idx,
          created, pending, deleted, warnings, report, outcome, retval, raised,
          creates, deletes, calls, prev, pod, session_status, items, printed>>

Exists(kind, name) == \E r \in cluster : r.kind = kind /\ r.name = name

EmptyDict == [k \in {} |-> NoError]
NoPrev == [report |-> "none", honoured |-> TRUE]
\* no read request answered yet
NoAnswer == [code |-> 0]
\* the None get_session_status returns
None == [none |-> TRUE]

Init ==
    /\ cluster = {}
    /\ pc = [p \in Procs |-> "idle"]
    /\ cmd = [p \in Procs |-> "none"]
    /\ session_id = [p \in Procs |-> <<>>]
    /\ user_id = [p \in Procs |-> NoUser]
    /\ vscode_password = [p \in Procs |-> NoData]
    /\ resources = [p \in Procs |-> <<>>]
    /\ idx = [p \in Procs |-> 1]
    /\ created = [p \in Procs |-> EmptyDict]
    /\ pending = [p \in Procs |-> NoError]
    /\ deleted = [p \in Procs |-> <<>>]
    /\ warnings = [p \in Procs |-> <<>>]
    /\ report = [p \in Procs |-> "none"]
    /\ outcome = [p \in Procs |-> "none"]
    /\ retval = [p \in Procs |-> EmptyDict]
    /\ raised = [p \in Procs |-> NoError]
    /\ creates = [p \in Procs |-> <<>>]
    /\ deletes = [p \in Procs |-> <<>>]
    /\ calls = [p \in Procs |-> 0]
    /\ prev = [p \in Procs |-> NoPrev]
    /\ pod = [p \in Procs |-> NoAnswer]
    /\ session_status = [p \in Procs |-> None]
    /\ items = [p \in Procs |-> <<>>]
    /\ printed = [p \in Procs |-> <<>>]

(* ------------------------ the API server ------------------------------ *)
\* statuses with which the API server may answer a create of `kind`/`name`;
\* 201 is the only one that stores the resource
CreateStatuses(kind, name) ==
    IF Exists(kind, name) THEN {Conflict, ServerError} ELSE {201, ServerError}

\* statuses with which the API server may answer a delete of `kind`/`name`;
\* 200 is the only one that removes the resource
DeleteStatuses(kind, name) ==
    IF Exists(kind, name) THEN {200, ServerError} ELSE {NotFound, ServerError}

Remove(kind, name) == {r \in cluster : ~(r.kind = kind /\ r.name = name)}

(* --------------------------- create_session --------------------------- *)
\* lines 52-106: resolve the credential, substitute, parse, created = {}
StartCreate(p, sid, uid, pwarg, token, template) ==
    /\ pc[p] = "idle"
    /\ pc' = [pc EXCEPT ![p] = "create_loop"]
    /\ cmd' = [cmd EXCEPT ![p] = "create"]
    /\ session_id' = [session_id EXCEPT ![p] = sid]
    /\ user_id' = [user_id EXCEPT ![p] = uid]
    /\ vscode_password' = [vscode_password EXCEPT ![p] = ResolvePassword(pwarg, token)]
    /\ resources' = [resources EXCEPT
                       ![p] = Render(template, sid, uid, ResolvePassword(pwarg, token))]
    /\ idx' = [idx EXCEPT ![p] = 1]
    /\ created' = [created EXCEPT ![p] = EmptyDict]
    /\ UNCHANGED <<cluster, pending, deleted, warnings, report, outcome, retval,
                   raised, creates, deletes, calls, prev,
                   pod, session_status, items, printed>>

\* the documents are parsed one by one as the loop reaches them: the first
\* document is submitted before the malformed stretch is met
ParseFailsInLoop(p, sid, uid, pwarg, token, manifest) ==
    /\ pc[p] = "idle"
    /\ ~WellFormed(manifest)
    /\ pc' = [pc EXCEPT ![p] = "done"]
    /\ cmd' = [cmd EXCEPT ![p] = "create"]
    /\ session_id' = [session_id EXCEPT ![p] = sid]
    /\ user_id' = [user_id EXCEPT ![p] = uid]
    /\ vscode_password' = [vscode_password EXCEPT ![p] = ResolvePassword(pwarg, token)]
    /\ outcome' = [outcome EXCEPT ![p] = "raised"]
    /\ raised' = [raised EXCEPT ![p] = YAMLError]
    /\ LET first == RenderDoc(manifest[1], sid, uid, ResolvePassword(pwarg, token))
           sent == first.kind \in KindSet /\ ~Exists(first.kind, first.name)
       IN  /\ cluster' = IF sent THEN cluster \cup {first} ELSE cluster
           /\ creates' = [creates EXCEPT
                            ![p] = IF sent
                                   THEN <<[kind |-> first.kind, name |-> first.name,
                                           doc |-> 1, status |-> 201]>>
                                   ELSE @]
    /\ UNCHANGED <<resources, idx, created, pending, deleted, warnings, report, retval,
                   deletes, calls, prev,
                   pod, session_status, items, printed>>

\* lines 52-103 on a manifest yaml cannot parse: list(yaml.safe_load_all(..))
\* reads the whole manifest and raises before the loop of line 108 is entered
ParseFails(p, sid, uid, pwarg, token, manifest) ==
    /\ pc[p] = "idle"
    /\ ~WellFormed(manifest)
    /\ pc' = [pc EXCEPT ![p] = "done"]
    /\ cmd' = [cmd EXCEPT ![p] = "create"]
    /\ session_id' = [session_id EXCEPT ![p] = sid]
    /\ user_id' = [user_id EXCEPT ![p] = uid]
    /\ vscode_password' = [vscode_password EXCEPT ![p] = ResolvePassword(pwarg, token)]
    /\ outcome' = [outcome EXCEPT ![p] = "raised"]
    /\ raised' = [raised EXCEPT ![p] = YAMLError]
    /\ UNCHANGED <<cluster, resources, idx, created, pending, deleted, warnings, report,
                   retval, creates, deletes, calls, prev,
                   pod, session_status, items, printed>>

InLoop(p) == pc[p] = "create_loop" /\ idx[p] <= Len(resources[p])

DocReversed(p) == resources[p][Len(resources[p]) + 1 - idx[p]]

\* line 108: the document the loop is at
Doc(p) == resources[p][idx[p]]

\* lines 109-110 (a null document) and 117-139 with no branch taken (a
\* mapping of another kind): nothing is submitted, the loop goes on
SkipDocument(p) ==
    /\ InLoop(p)
    /\ Doc(p).kind \in {"Null", "ConfigMap"}
    /\ idx' = [idx EXCEPT ![p] = @ + 1]
    /\ UNCHANGED <<cluster, pc, cmd, session_id, user_id, vscode_password, resources,
                   created, pending, deleted, warnings, report, outcome, retval,
                   raised, creates, deletes, calls, prev,
                   pod, session_status, items, printed>>

\* lines 112-114 on a document that is not a mapping: resource.get raises
\* AttributeError outside the try block, which leaves create_session at once
BadDocument(p) ==
    /\ InLoop(p)
    /\ Doc(p).kind = "Scalar"
    /\ pc' = [pc EXCEPT ![p] = "done"]
    /\ outcome' = [outcome EXCEPT ![p] = "raised"]
    /\ raised' = [raised EXCEPT ![p] = AttributeError(Doc(p).kind)]
    /\ UNCHANGED <<cluster, cmd, session_id, user_id, vscode_password, resources, idx,
                   created, pending, deleted, warnings, report, retval, creates,
                   deletes, calls, prev,
                   pod, session_status, items, printed>>

\* the Secret branch does not store its acknowledgment
CreateAcceptedSecretUnrecorded(p) ==
    /\ InLoop(p)
    /\ Doc(p).kind \in KindSet
    /\ 201 \in CreateStatuses(Doc(p).kind, Doc(p).name)
    /\ cluster' = cluster \cup {Doc(p)}
    /\ created' = [created EXCEPT
                     ![p] = IF Doc(p).kind = "Secret" THEN @
                            ELSE (CreatedKey(Doc(p).kind) :> Doc(p)) @@ @]
    /\ creates' = [creates EXCEPT
                     ![p] = Append(@, [kind |-> Doc(p).kind, name |-> Doc(p).name,
                                       doc |-> idx[p], status |-> 201])]
    /\ idx' = [idx EXCEPT ![p] = @ + 1]
    /\ UNCHANGED <<pc, cmd, session_id, user_id, vscode_password, resources, pending,
                   deleted, warnings, report, outcome, retval, raised, deletes, calls, prev,
                   pod, session_status, items, printed>>

\* lines 116-139: the create request is accepted
CreateAccepted(p) ==
    /\ InLoop(p)
    /\ Doc(p).kind \in KindSet
    /\ 201 \in CreateStatuses(Doc(p).kind, Doc(p).name)
    /\ cluster' = cluster \cup {Doc(p)}
    /\ created' = [created EXCEPT ![p] = (CreatedKey(Doc(p).kind) :> Doc(p)) @@ @]
    /\ creates' = [creates EXCEPT
                     ![p] = Append(@, [kind |-> Doc(p).kind, name |-> Doc(p).name,
                                       doc |-> idx[p], status |-> 201])]
    /\ idx' = [idx EXCEPT ![p] = @ + 1]
    /\ UNCHANGED <<pc, cmd, session_id, user_id, vscode_password, resources, pending,
                   deleted, warnings, report, outcome, retval, raised, deletes, calls, prev,
                   pod, session_status, items, printed>>

\* the handler re-raises without the cleanup
CreateRejectedNoCleanup(p) ==
    /\ InLoop(p)
    /\ Doc(p).kind \in KindSet
    /\ \E status \in CreateStatuses(Doc(p).kind, Doc(p).name) \ {201} :
         /\ pending' = [pending EXCEPT
                          ![p] = ApiException(status, "create", Doc(p).kind)]
         /\ raised' = [raised EXCEPT
                         ![p] = ApiException(status, "create", Doc(p).kind)]
         /\ creates' = [creates EXCEPT
                          ![p] = Append(@, [kind |-> Doc(p).kind, name |-> Doc(p).name,
                                            doc |-> idx[p], status |-> status])]
    /\ pc' = [pc EXCEPT ![p] = "done"]
    /\ outcome' = [outcome EXCEPT ![p] = "raised"]
    /\ UNCHANGED <<cluster, cmd, session_id, user_id, vscode_password, resources, idx,
                   created, deleted, warnings, report, retval, deletes, calls, prev,
                   pod, session_status, items, printed>>

\* the handler swallows the exception and the loop goes on
CreateRejectedContinues(p) ==
    /\ InLoop(p)
    /\ Doc(p).kind \in KindSet
    /\ \E status \in CreateStatuses(Doc(p).kind, Doc(p).name) \ {201} :
         creates' = [creates EXCEPT
                       ![p] = Append(@, [kind |-> Doc(p).kind, name |-> Doc(p).name,
                                         doc |-> idx[p], status |-> status])]
    /\ idx' = [idx EXCEPT ![p] = @ + 1]
    /\ UNCHANGED <<cluster, pc, cmd, session_id, user_id, vscode_password, resources,
                   created, pending, deleted, warnings, report, outcome, retval,
                   raised, deletes, calls, prev,
                   pod, session_status, items, printed>>

\* the handler submits the refused document again
CreateRejectedRetries(p) ==
    /\ InLoop(p)
    /\ Doc(p).kind \in KindSet
    /\ Len(creates[p]) <= MaxDocs
    /\ \E status \in CreateStatuses(Doc(p).kind, Doc(p).name) \ {201} :
         creates' = [creates EXCEPT
                       ![p] = Append(@, [kind |-> Doc(p).kind, name |-> Doc(p).name,
                                         doc |-> idx[p], status |-> status])]
    /\ UNCHANGED <<cluster, pc, cmd, session_id, user_id, vscode_password, resources, idx,
                   created, pending, deleted, warnings, report, outcome, retval,
                   raised, deletes, calls, prev,
                   pod, session_status, items, printed>>

\* lines 141-144: the create request raises ApiException; delete_session is
\* entered with the exception kept for the `raise` of line 145
CreateRejected(p) ==
    /\ InLoop(p)
    /\ Doc(p).kind \in KindSet
    /\ \E status \in CreateStatuses(Doc(p).kind, Doc(p).name) \ {201} :
         /\ pending' = [pending EXCEPT
                          ![p] = ApiException(status, "create", Doc(p).kind)]
         /\ creates' = [creates EXCEPT
                          ![p] = Append(@, [kind |-> Doc(p).kind, name |-> Doc(p).name,
                                            doc |-> idx[p], status |-> status])]
    /\ pc' = [pc EXCEPT ![p] = "delete_pod"]
    /\ deleted' = [deleted EXCEPT ![p] = <<>>]
    /\ UNCHANGED <<cluster, cmd, session_id, user_id, vscode_password, resources, idx,
                   created, warnings, report, outcome, retval, raised, deletes, calls, prev,
                   pod, session_status, items, printed>>

\* lines 147-161: the loop is over, the access information is printed and
\* `created` is returned
ReturnCreated(p) ==
    /\ pc[p] = "create_loop"
    /\ idx[p] > Len(resources[p])
    /\ pc' = [pc EXCEPT ![p] = "done"]
    /\ outcome' = [outcome EXCEPT ![p] = "returned"]
    /\ retval' = [retval EXCEPT ![p] = created[p]]
    /\ UNCHANGED <<cluster, cmd, session_id, user_id, vscode_password, resources, idx,
                   created, pending, deleted, warnings, report, raised, creates,
                   deletes, calls, prev,
                   pod, session_status, items, printed>>

(* --------------------------- delete_session --------------------------- *)
\* lines 163-174, called from the command line
StartDelete(p, sid) ==
    /\ pc[p] = "idle"
    /\ pc' = [pc EXCEPT ![p] = "delete_pod"]
    /\ cmd' = [cmd EXCEPT ![p] = "delete"]
    /\ session_id' = [session_id EXCEPT ![p] = sid]
    /\ deleted' = [deleted EXCEPT ![p] = <<>>]
    /\ calls' = [calls EXCEPT ![p] = 1]
    /\ UNCHANGED <<cluster, user_id, vscode_password, resources, idx, created, pending,
                   warnings, report, outcome, retval, raised, creates, deletes, prev,
                   pod, session_status, items, printed>>

\* one try/except block of delete_session: the request, and what the
\* handler does with each answer
DeleteRequest(p, kind, name) ==
    \E status \in DeleteStatuses(kind, name) :
      /\ cluster' = IF status = 200 THEN Remove(kind, name) ELSE cluster
      /\ deleted' = [deleted EXCEPT
                       ![p] = IF status = 200 THEN Append(@, <<kind, name>>) ELSE @]
      /\ warnings' = [warnings EXCEPT
                        ![p] = IF status \notin {200, NotFound}
                               THEN Append(@, ApiException(status, "delete", kind))
                               ELSE @]
      /\ deletes' = [deletes EXCEPT
                       ![p] = Append(@, [kind |-> kind, name |-> name,
                                         existed |-> Exists(kind, name),
                                         status |-> status])]

\* the handler of the pod deletion re-raises what is not a 404
DeletePodReraises(p) ==
    /\ pc[p] = "delete_pod"
    /\ DeleteRequest(p, "Pod", pod_name(session_id[p]))
    /\ LET failed == deletes'[p][Len(deletes'[p])].status \notin {200, NotFound}
       IN  /\ pc' = [pc EXCEPT ![p] = IF failed THEN "done" ELSE "delete_service"]
           /\ outcome' = [outcome EXCEPT ![p] = IF failed THEN "raised" ELSE @]
           /\ raised' = [raised EXCEPT
                           ![p] = IF failed THEN ApiException(ServerError, "delete", "Pod")
                                  ELSE @]
    /\ UNCHANGED <<cmd, session_id, user_id, vscode_password, resources, idx, created,
                   pending, report, retval, creates, calls, prev,
                   pod, session_status, items, printed>>

\* lines 176-185
DeletePod(p) ==
    /\ pc[p] = "delete_pod"
    /\ DeleteRequest(p, "Pod", pod_name(session_id[p]))
    /\ pc' = [pc EXCEPT ![p] = "delete_service"]
    /\ UNCHANGED <<cmd, session_id, user_id, vscode_password, resources, idx, created,
                   pending, report, outcome, retval, raised, creates, calls, prev,
                   pod, session_status, items, printed>>

\* lines 187-196
DeleteService(p) ==
    /\ pc[p] = "delete_service"
    /\ DeleteRequest(p, "Service", service_name(session_id[p]))
    /\ pc' = [pc EXCEPT ![p] = "delete_secret"]
    /\ UNCHANGED <<cmd, session_id, user_id, vscode_password, resources, idx, created,
                   pending, report, outcome, retval, raised, creates, calls, prev,
                   pod, session_status, items, printed>>

ReportAlwaysDeleted(deletedList) == "deleted"

\* the closing line delete_session prints (lines 209-214)
Report(deletedList) == IF deletedList # <<>> THEN "deleted" ELSE "not_found"

\* the `raise` of create_session raises the latest exception seen, which is
\* the one of the rollback when a deletion failed
DeleteSecretMasks(p) ==
    /\ pc[p] = "delete_secret"
    /\ DeleteRequest(p, "Secret", secret_name(session_id[p]))
    /\ report' = [report EXCEPT ![p] = Report(deleted'[p])]
    /\ pc' = [pc EXCEPT ![p] = "done"]
    /\ outcome' = [outcome EXCEPT ![p] = IF cmd[p] = "create" THEN "raised" ELSE "returned"]
    /\ raised' = [raised EXCEPT
                    ![p] = IF cmd[p] # "create" THEN @
                           ELSE IF warnings'[p] # <<>>
                                THEN warnings'[p][Len(warnings'[p])]
                                ELSE pending[p]]
    /\ UNCHANGED <<cmd, session_id, user_id, vscode_password, resources, idx, created,
                   pending, retval, creates, calls, prev,
                   pod, session_status, items, printed>>

\* lines 198-214, and the return: to the command line, or into the handler
\* of create_session, whose `raise` (line 145) re-raises the create error
DeleteSecret(p) ==
    /\ pc[p] = "delete_secret"
    /\ DeleteRequest(p, "Secret", secret_name(session_id[p]))
    /\ report' = [report EXCEPT ![p] = Report(deleted'[p])]
    /\ pc' = [pc EXCEPT ![p] = "done"]
    /\ outcome' = [outcome EXCEPT ![p] = IF cmd[p] = "create" THEN "raised" ELSE "returned"]
    /\ raised' = [raised EXCEPT ![p] = IF cmd[p] = "create" THEN pending[p] ELSE @]
    /\ UNCHANGED <<cmd, session_id, user_id, vscode_password, resources, idx, created,
                   pending, retval, creates, calls, prev,
                   pod, session_status, items, printed>>

\* every delete request of the command that met an existing resource was
\* carried out by the API server
Honoured(log) == \A i \in 1..Len(log) : log[i].existed => log[i].status = 200

\* delete_session is called again by the same caller, with the same
\* session_id, right after it returned
DeleteAgain(p) ==
    /\ pc[p] = "done"
    /\ cmd[p] = "delete"
    /\ calls[p] < MaxCalls
    /\ calls' = [calls EXCEPT ![p] = @ + 1]
    /\ prev' = [prev EXCEPT
                  ![p] = [report |-> report[p], honoured |-> Honoured(deletes[p])]]
    /\ pc' = [pc EXCEPT ![p] = "delete_pod"]
    /\ deleted' = [deleted EXCEPT ![p] = <<>>]
    /\ warnings' = [warnings EXCEPT ![p] = <<>>]
    /\ deletes' = [deletes EXCEPT ![p] = <<>>]
    /\ report' = [report EXCEPT ![p] = "none"]
    /\ outcome' = [outcome EXCEPT ![p] = "none"]
    /\ UNCHANGED <<cluster, cmd, session_id, user_id, vscode_password, resources, idx,
                   created, pending, retval, raised, creates,
                   pod, session_status, items, printed>>

(* ------------------------- get_session_status ------------------------- *)
\* values of pod.status.phase the API server reports
Phases == {"Pending", "Running"}
\* one entry of pod.status.container_statuses
Container ==
    [name |-> "vm", ready |-> FALSE, restart_count |-> 1, state |-> "waiting"]
\* pod.status.container_statuses: nothing while the pod is being scheduled
ContainerStatuses == {<<>>, <<Container>>}
\* str(container.state)
Str(state) == <<"str", state>>

\* lines 252-262, called from the command line
StartStatus(p, sid) ==
    /\ pc[p] = "idle"
    /\ pc' = [pc EXCEPT ![p] = "read_pod"]
    /\ cmd' = [cmd EXCEPT ![p] = "status"]
    /\ session_id' = [session_id EXCEPT ![p] = sid]
    /\ UNCHANGED <<cluster, user_id, vscode_password, resources, idx, created, pending,
                   deleted, warnings, report, outcome, retval, raised, creates,
                   deletes, calls, prev, pod, session_status, items, printed>>

\* the caller of a create_session that returned calls get_session_status
\* with the same session_id; what the create call left is kept
StatusAfterCreate(p) ==
    /\ pc[p] = "done"
    /\ cmd[p] = "create"
    /\ outcome[p] = "returned"
    /\ pc' = [pc EXCEPT ![p] = "read_pod"]
    /\ cmd' = [cmd EXCEPT ![p] = "status"]
    /\ outcome' = [outcome EXCEPT ![p] = "none"]
    /\ UNCHANGED <<cluster, session_id, user_id, vscode_password, resources, idx,
                   created, pending, deleted, warnings, report, retval, raised,
                   creates, deletes, calls, prev, pod, session_status, items, printed>>

\* statuses with which the API server may answer a read of pod `name`
ReadStatuses(name) ==
    IF Exists("Pod", name) THEN {200, ServerError} ELSE {NotFound, ServerError}

PodNamed(name) == CHOOSE r \in cluster : r.kind = "Pod" /\ r.name = name

\* the user is read from a label the pods do not carry
StatusOfOtherLabel(sid, answer) ==
    [session_id |-> sid,
     user_id |-> NoUser,
     phase |-> answer.phase,
     containers |->
       [i \in 1..Len(answer.container_statuses) |->
          [name |-> answer.container_statuses[i].name,
           ready |-> answer.container_statuses[i].ready,
           restart_count |-> answer.container_statuses[i].restart_count,
           state |-> Str(answer.container_statuses[i].state)]]]

\* every phase but Running is reported as Unknown
StatusOfPhaseCollapsed(sid, answer) ==
    [session_id |-> sid,
     user_id |-> answer.metadata.user,
     phase |-> IF answer.phase = "Running" THEN "Running" ELSE "Unknown",
     containers |->
       [i \in 1..Len(answer.container_statuses) |->
          [name |-> answer.container_statuses[i].name,
           ready |-> answer.container_statuses[i].ready,
           restart_count |-> answer.container_statuses[i].restart_count,
           state |-> Str(answer.container_statuses[i].state)]]]

\* lines 270-286: the dict built from the pod the API server returned
StatusOf(sid, answer) ==
    [session_id |-> sid,
     user_id |-> answer.metadata.user,
     phase |-> answer.phase,
     containers |->
       [i \in 1..Len(answer.container_statuses) |->
          [name |-> answer.container_statuses[i].name,
           ready |-> answer.container_statuses[i].ready,
           restart_count |-> answer.container_statuses[i].restart_count,
           state |-> Str(answer.container_statuses[i].state)]]]

\* lines 264-295: the read request, and the return on each answer
ReadPod(p) ==
    /\ pc[p] = "read_pod"
    /\ \E code \in ReadStatuses(pod_name(session_id[p])) :
         IF code = 200
         THEN \E phase \in Phases, cs \in ContainerStatuses :
                LET answer == [code |-> 200,
                               metadata |-> PodNamed(pod_name(session_id[p])),
                               phase |-> phase,
                               container_statuses |-> cs]
                IN  /\ pod' = [pod EXCEPT ![p] = answer]
                    /\ session_status' = [session_status EXCEPT
                                            ![p] = StatusOf(session_id[p], answer)]
                    /\ report' = [report EXCEPT ![p] = "none"]
         ELSE /\ pod' = [pod EXCEPT ![p] = [code |-> code]]
              /\ session_status' = [session_status EXCEPT ![p] = None]
              /\ report' = [report EXCEPT
                              ![p] = IF code = NotFound THEN "not_found" ELSE "error"]
    /\ pc' = [pc EXCEPT ![p] = "done"]
    /\ outcome' = [outcome EXCEPT ![p] = "returned"]
    /\ UNCHANGED <<cluster, cmd, session_id, user_id, vscode_password, resources, idx,
                   created, pending, deleted, warnings, retval, raised, creates,
                   deletes, calls, prev, items, printed>>

(* ----------------------------- list_sessions --------------------------- *)
\* lines 216-222, called from the command line
StartList(p) ==
    /\ pc[p] = "idle"
    /\ pc' = [pc EXCEPT ![p] = "list_pods"]
    /\ cmd' = [cmd EXCEPT ![p] = "list"]
    /\ UNCHANGED <<cluster, session_id, user_id, vscode_password, resources, idx,
                   created, pending, deleted, warnings, report, outcome, retval,
                   raised, creates, deletes, calls, prev, pod, session_status, items,
                   printed>>

\* the selector also asks for the session-id label
LabelledWithSessionId ==
    {r \in cluster : r.kind = "Pod" /\ r.app /\ r.session # NoSession}

\* the pods label_selector="app=lab-environment" selects
Labelled == {r \in cluster : r.kind = "Pod" /\ r.app}

\* the orders in which the API server may list the pods of S
Orders(S) ==
    {f \in [1..Cardinality(S) -> S] :
       \A i, j \in 1..Cardinality(S) : i # j => f[i] # f[j]}

\* lines 239-244: one row of the table
Row(item) ==
    [session_id |-> IF item.metadata.session = NoSession THEN <<"N/A">>
                    ELSE item.metadata.session,
     user_id |-> IF item.metadata.user = NoUser THEN "N/A" ELSE item.metadata.user,
     status |-> item.phase]

\* the listing removes the labelled pods that carry no session-id label
ListPodsPrunes(p) ==
    /\ pc[p] = "list_pods"
    /\ \/ \E order \in Orders(Labelled), phases \in [Labelled -> Phases] :
            LET answer == [i \in 1..Len(order) |->
                             [metadata |-> order[i], phase |-> phases[order[i]]]]
            IN  /\ items' = [items EXCEPT ![p] = answer]
                /\ printed' = [printed EXCEPT
                                 ![p] = [i \in 1..Len(answer) |-> Row(answer[i])]]
                /\ report' = [report EXCEPT
                                ![p] = IF answer = <<>> THEN "no_sessions" ELSE "table"]
       \/ /\ items' = [items EXCEPT ![p] = <<>>]
          /\ printed' = [printed EXCEPT ![p] = <<>>]
          /\ report' = [report EXCEPT ![p] = "error"]
    /\ cluster' = cluster \ {r \in Labelled : r.session = NoSession}
    /\ pc' = [pc EXCEPT ![p] = "done"]
    /\ outcome' = [outcome EXCEPT ![p] = "returned"]
    /\ UNCHANGED <<cmd, session_id, user_id, vscode_password, resources, idx,
                   created, pending, deleted, warnings, retval, raised, creates,
                   deletes, calls, prev, pod, session_status>>

\* lines 223-250: the list request, the table, and the return
ListPods(p) ==
    /\ pc[p] = "list_pods"
    /\ \/ \E order \in Orders(Labelled), phases \in [Labelled -> Phases] :
            LET answer == [i \in 1..Len(order) |->
                             [metadata |-> order[i], phase |-> phases[order[i]]]]
            IN  /\ items' = [items EXCEPT ![p] = answer]
                /\ printed' = [printed EXCEPT
                                 ![p] = [i \in 1..Len(answer) |-> Row(answer[i])]]
                /\ report' = [report EXCEPT
                                ![p] = IF answer = <<>> THEN "no_sessions" ELSE "table"]
       \/ /\ items' = [items EXCEPT ![p] = <<>>]
          /\ printed' = [printed EXCEPT ![p] = <<>>]
          /\ report' = [report EXCEPT ![p] = "error"]
    /\ pc' = [pc EXCEPT ![p] = "done"]
    /\ outcome' = [outcome EXCEPT ![p] = "returned"]
    /\ UNCHANGED <<cluster, cmd, session_id, user_id, vscode_password, resources, idx,
                   created, pending, deleted, warnings, retval, raised, creates,
                   deletes, calls, prev, pod, session_status>>

(* ---------------------- other clients of the namespace ----------------- *)
\* pods another client may keep in the namespace: labelled as a lab
\* environment with or without the session-id and user-id labels, or not
\* labelled at all
ForeignPods ==
    {[kind |-> "Pod", name |-> <<"stray-pod">>, user |-> u, data |-> NoData,
      session |-> s, app |-> TRUE] : u \in {NoUser, "carol"}, s \in {NoSession, <<"z">>}}
    \cup {[kind |-> "Pod", name |-> <<"stray-pod">>, user |-> NoUser, data |-> NoData,
            session |-> NoSession, app |-> FALSE]}

ForeignPodAdded(r) ==
    /\ ~Exists("Pod", r.name)
    /\ cluster' = cluster \cup {r}
    /\ UNCHANGED <<pc, cmd, session_id, user_id, vscode_password, resources, idx,
                   created, pending, deleted, warnings, report, outcome, retval,
                   raised, creates, deletes, calls, prev, pod, session_status, items,
                   printed>>

ForeignPodRemoved(r) ==
    /\ r \in cluster
    /\ cluster' = cluster \ {r}
    /\ UNCHANGED <<pc, cmd, session_id, user_id, vscode_password, resources, idx,
                   created, pending, deleted, warnings, report, outcome, retval,
                   raised, creates, deletes, calls, prev, pod, session_status, items,
                   printed>>

(* ------------------------------- main --------------------------------- *)
\* lines 336-356: the command is over and the process ends; another
\* invocation starts from nothing
Exit(p) ==
    /\ pc[p] = "done"
    /\ calls' = [calls EXCEPT ![p] = 0]
    /\ prev' = [prev EXCEPT ![p] = NoPrev]
    /\ pod' = [pod EXCEPT ![p] = NoAnswer]
    /\ session_status' = [session_status EXCEPT ![p] = None]
    /\ items' = [items EXCEPT ![p] = <<>>]
    /\ printed' = [printed EXCEPT ![p] = <<>>]
    /\ pc' = [pc EXCEPT ![p] = "idle"]
    /\ cmd' = [cmd EXCEPT ![p] = "none"]
    /\ session_id' = [session_id EXCEPT ![p] = <<>>]
    /\ user_id' = [user_id EXCEPT ![p] = NoUser]
    /\ vscode_password' = [vscode_password EXCEPT ![p] = NoData]
    /\ resources' = [resources EXCEPT ![p] = <<>>]
    /\ idx' = [idx EXCEPT ![p] = 1]
    /\ created' = [created EXCEPT ![p] = EmptyDict]
    /\ pending' = [pending EXCEPT ![p] = NoError]
    /\ deleted' = [deleted EXCEPT ![p] = <<>>]
    /\ warnings' = [warnings EXCEPT ![p] = <<>>]
    /\ report' = [report EXCEPT ![p] = "none"]
    /\ outcome' = [outcome EXCEPT ![p] = "none"]
    /\ retval' = [retval EXCEPT ![p] = EmptyDict]
    /\ raised' = [raised EXCEPT ![p] = NoError]
    /\ creates' = [creates EXCEPT ![p] = <<>>]
    /\ deletes' = [deletes EXCEPT ![p] = <<>>]
    /\ UNCHANGED cluster

\* invocation p can start a command, and no other invocation is running
Alone(p) == \A q \in Procs : pc[q] = "idle"

Step(p) ==
    \/ SkipDocument(p)
    \/ BadDocument(p)
    \/ CreateAccepted(p)
    \/ CreateRejected(p)
    \/ ReturnCreated(p)
    \/ DeletePod(p)
    \/ DeleteService(p)
    \/ DeleteSecret(p)
    \/ DeleteAgain(p)
    \/ Exit(p)

\* the inputs of the commands of one caller, run one after the other on one
\* session
SeqSessionIds == {<<"a">>}
SeqUserIds == UserIds

SeqProcs == {1}

Next ==
    \E p \in SeqProcs :
      \/ /\ Alone(p)
         /\ \E sid \in SeqSessionIds, uid \in SeqUserIds, pwarg \in PasswordArgs,
               token \in GeneratedTokens, template \in Templates :
              StartCreate(p, sid, uid, pwarg, token, template)
      \/ /\ Alone(p)
         /\ \E sid \in SeqSessionIds, uid \in SeqUserIds, pwarg \in PasswordArgs,
               token \in GeneratedTokens, manifest \in Manifests :
              ParseFails(p, sid, uid, pwarg, token, manifest)
      \/ /\ Alone(p)
         /\ \E sid \in SeqSessionIds : StartDelete(p, sid)
      \/ Step(p)

Spec == Init /\ [][Next]_vars

(* ----------------- concurrent calls of create_session ------------------ *)
\* the template of the repository: the pod, its service, its secret
ReferenceTemplate == <<"Pod", "Service", "Secret">>
ConcTemplates == {ReferenceTemplate}
ConcUserIds == {"alice"}
ConcPasswordArgs == {"pw"}

\* the session ids of the invocations that are running, p left out
RunningSessions(p) == {session_id[q] : q \in {r \in Procs \ {p} : pc[r] # "idle"}}

\* invocations run create_session at the same time, each for a session id
\* no other running invocation uses; their requests interleave
NextConc ==
    \E p \in Procs :
      \/ /\ pc[p] = "idle"
         /\ \E sid \in SessionIds \ RunningSessions(p), uid \in ConcUserIds,
               pwarg \in ConcPasswordArgs, token \in GeneratedTokens,
               template \in ConcTemplates :
              StartCreate(p, sid, uid, pwarg, token, template)
      \/ CreateAccepted(p)
      \/ CreateRejected(p)
      \/ ReturnCreated(p)
      \/ DeletePod(p)
      \/ DeleteService(p)
      \/ DeleteSecret(p)
      \/ Exit(p)

SpecConc == Init /\ [][NextConc]_vars

(* ------------- the commands of one caller, with inspection ------------- *)
\* the template of the repository, and one without the Pod document
InspectTemplates == {ReferenceTemplate, <<"Service", "Secret">>}

\* one caller runs create, delete, status and list one after the other, on
\* a namespace other clients add pods to and remove pods from
NextInspect ==
    \/ \E r \in ForeignPods : ForeignPodAdded(r)
    \/ \E r \in ForeignPods : ForeignPodRemoved(r)
    \/ \E p \in SeqProcs :
         \/ /\ Alone(p)
            /\ \E sid \in SessionIds, uid \in UserIds, pwarg \in ConcPasswordArgs,
                  token \in GeneratedTokens, template \in InspectTemplates :
                 StartCreate(p, sid, uid, pwarg, token, template)
         \/ \E sid \in SessionIds : StartDelete(p, sid)
         \/ \E sid \in SessionIds : StartStatus(p, sid)
         \/ StartList(p)
         \/ CreateAccepted(p)
         \/ CreateRejected(p)
         \/ ReturnCreated(p)
         \/ DeletePod(p)
         \/ DeleteService(p)
         \/ DeleteSecret(p)
         \/ StatusAfterCreate(p)
         \/ ReadPod(p)
         \/ ListPods(p)
         \/ Exit(p)

SpecInspect == Init /\ [][NextInspect]_vars

(* ------------------- the names delete_session uses --------------------- *)
\* session ids built from pieces no string of which has two readings; an id
\* may end like the suffix of the secret name
IdPieces == {"a", "b", "-secrets"}
NameIds == UNION {[1..n -> IdPieces] : n \in 1..MaxIdLen}
NameProcs == {1, 2}

\* two invocations run delete_session, each for any session id, on a
\* namespace nothing is created in
NextNames ==
    \E p \in NameProcs :
      \/ /\ pc[p] = "idle"
         /\ \E sid \in NameIds : StartDelete(p, sid)
      \/ DeletePod(p)
      \/ DeleteService(p)
      \/ DeleteSecret(p)
      \/ Exit(p)

SpecNames == Init /\ [][NextNames]_vars

(* ======================= properties of the commands ==================== *)
Finished(p, c) == pc[p] = "done" /\ cmd[p] = c
\* create_session has entered its exception handler
Failed(p) == cmd[p] = "create" /\ pending[p] # NoError
RolledBack(p) == Finished(p, "create") /\ pending[p] # NoError
\* the resources of the namespace that carry a canonical name of the session
SessionResources(sid) ==
    {r \in cluster : r.kind \in KindSet /\ r.name = CanonicalName(r.kind, sid)}
Statuses(log) == {log[i].status : i \in 1..Len(log)}
Targets(log) == {<<log[i].kind, log[i].name>> : i \in 1..Len(log)}
\* the positions, up to n, of the documents of `res` that are submitted
SubmittedDocs(res, n) ==
    SelectSeq([i \in 1..n |-> i], LAMBDA i : res[i].kind \in KindSet)

(* C1: a create_session call that has ended either returned with every Pod, *)
(* Service and Secret document of the template created, or raised an error  *)
(* with no pod, service or secret of the session left in the namespace.     *)
C1_NoPartialState ==
    \A p \in Procs :
      Finished(p, "create") =>
        \/ /\ outcome[p] = "returned"
           /\ \A i \in 1..Len(resources[p]) :
                resources[p][i].kind \in KindSet => resources[p][i] \in cluster
        \/ /\ outcome[p] = "raised"
           /\ SessionResources(session_id[p]) = {}

(* C2: once a create request of create_session has been refused, it is the  *)
(* last create request of the call: the call goes through the three steps   *)
(* of delete_session for its session and ends by raising, never returning.  *)
C2_FirstFailureAborts ==
    \A p \in Procs :
      cmd[p] = "create" =>
        /\ \A i \in 1..Len(creates[p]) :
             creates[p][i].status # 201 => i = Len(creates[p]) /\ Failed(p)
        /\ Failed(p) =>
             /\ creates[p] # <<>>
             /\ creates[p][Len(creates[p])].status # 201
             /\ pc[p] \in {"delete_pod", "delete_service", "delete_secret", "done"}
             /\ outcome[p] # "returned"
             /\ retval[p] = EmptyDict
        /\ RolledBack(p) =>
             /\ outcome[p] = "raised"
             /\ raised[p].type = "ApiException"
             /\ Targets(deletes[p]) =
                  {<<k, CanonicalName(k, session_id[p])>> : k \in KindSet}

\* a call whose second create request was refused with a document still
\* waiting behind it, which has ended
C2_Witness ==
    \E p \in Procs :
      /\ RolledBack(p)
      /\ Len(creates[p]) = 2
      /\ idx[p] < Len(resources[p])
      /\ resources[p][idx[p] + 1].kind \in KindSet

(* C3: when create_session has ended because a create request was refused  *)
(* (the first, second or third of a Pod, Service, Secret template, or any   *)
(* other), and the API server carried out every deletion of the rollback    *)
(* that met an existing resource, no pod, service or secret with a          *)
(* canonical name of the session is left.                                   *)
C3_NoResidue ==
    \A p \in Procs :
      RolledBack(p) /\ Honoured(deletes[p]) => SessionResources(session_id[p]) = {}

\* the third create request of the Pod, Service, Secret template was refused
\* and the rollback removed the pod and the service created before it
C3_Witness ==
    \E p \in Procs :
      /\ RolledBack(p)
      /\ [i \in 1..Len(resources[p]) |-> resources[p][i].kind]
           = <<"Pod", "Service", "Secret">>
      /\ [i \in 1..Len(creates[p]) |-> creates[p][i].status] = <<201, 201, ServerError>>
      /\ [i \in 1..Len(deletes[p]) |-> deletes[p][i].status] = <<200, 200, NotFound>>
      /\ SessionResources(session_id[p]) = {}

(* C4: delete_session, called by the caller or as the rollback, issues its  *)
(* delete requests for the canonical pod, service and secret name of the    *)
(* session, in that order, whatever the answers to the earlier ones: one    *)
(* request has been issued when it is at the service, two at the secret,    *)
(* and exactly three when it has ended; the next request can always be      *)
(* issued.                                                                  *)
C4_ThreeAttempts ==
    \A p \in Procs :
      LET expected == <<<<"Pod", pod_name(session_id[p])>>,
                        <<"Service", service_name(session_id[p])>>,
                        <<"Secret", secret_name(session_id[p])>>>>
          issued == [i \in 1..Len(deletes[p]) |-> <<deletes[p][i].kind, deletes[p][i].name>>]
      IN  /\ pc[p] = "delete_pod" => issued = <<>>
          /\ pc[p] = "delete_service" => issued = SubSeq(expected, 1, 1)
          /\ pc[p] = "delete_secret" => issued = SubSeq(expected, 1, 2)
          /\ Finished(p, "delete") \/ RolledBack(p) => issued = expected
          /\ pc[p] = "done" /\ ~(Finished(p, "delete") \/ RolledBack(p)) => issued = <<>>
          /\ pc[p] = "delete_service" => ENABLED DeleteService(p)
          /\ pc[p] = "delete_secret" => ENABLED DeleteSecret(p)

\* a rollback whose first deletion failed and whose second met nothing
C4_Witness ==
    \E p \in Procs :
      /\ RolledBack(p)
      /\ Len(deletes[p]) = 3
      /\ deletes[p][1].status = ServerError
      /\ deletes[p][2].status = NotFound
      /\ deletes[p][3].status = 200

(* C5: the exception create_session raises after a refused create request   *)
(* is the one of that request, whatever the three deletions of the rollback *)
(* answered.                                                                *)
C5_OriginalErrorRaised ==
    \A p \in Procs :
      RolledBack(p) =>
        LET trigger == creates[p][Len(creates[p])]
        IN  /\ raised[p] = ApiException(trigger.status, "create", trigger.kind)
            /\ raised[p] = pending[p]
            /\ \A i \in 1..Len(warnings[p]) : warnings[p][i] # raised[p]

\* a conflict on create followed by a rollback in which a deletion failed
C5_Witness ==
    \E p \in Procs :
      /\ RolledBack(p)
      /\ raised[p].status = Conflict
      /\ Statuses(deletes[p]) = {200, NotFound, ServerError}

(* C6: on a failed create, the resources the rollback issues delete         *)
(* requests for are exactly the resources this call created.                *)
C6_RollbackTargetsCreated ==
    \A p \in Procs :
      RolledBack(p) =>
        Targets(deletes[p]) =
          {<<created[p][k].kind, created[p][k].name>> : k \in DOMAIN created[p]}

(* C7: delete_session reports "not found" exactly when its three deletions  *)
(* were all answered not-found, and a deletion that failed otherwise is     *)
(* reported as a partial deletion, with a warning for each such failure.    *)
C7_ThreeOutcomes ==
    \A p \in Procs :
      Finished(p, "delete") =>
        /\ report[p] = "not_found" <=> Statuses(deletes[p]) = {NotFound}
        /\ Statuses(deletes[p]) \subseteq {200, NotFound} /\ 200 \in Statuses(deletes[p])
             => report[p] = "deleted"
        /\ Statuses(deletes[p]) \ {200, NotFound} # {}
             => /\ report[p] \notin {"not_found", "deleted"}
                /\ Len(warnings[p]) =
                     Cardinality({i \in 1..3 : deletes[p][i].status \notin {200, NotFound}})

(* C8 as stated: the second of two delete_session calls in a row reports    *)
(* "not found", and no call raises.                                         *)
C8_SecondDeleteNotFound ==
    \A p \in Procs :
      Finished(p, "delete") =>
        /\ outcome[p] = "returned"
        /\ calls[p] >= 2 => report[p] = "not_found"

(* C8: delete_session never raises; and when every deletion of a call that  *)
(* met an existing resource was carried out by the API server, the call     *)
(* that follows it at once reports "not found".                             *)
C8_Idempotent ==
    \A p \in Procs :
      Finished(p, "delete") =>
        /\ outcome[p] = "returned"
        /\ raised[p] = NoError
        /\ calls[p] >= 2 /\ prev[p].honoured =>
             /\ report[p] = "not_found"
             /\ deleted[p] = <<>>

\* a second call right after a call that deleted something
C8_Witness ==
    \E p \in Procs :
      /\ Finished(p, "delete")
      /\ calls[p] = 2
      /\ prev[p].honoured
      /\ prev[p].report = "deleted"
      /\ report[p] = "not_found"

(* C9 as stated: on success create_session returns one entry per submitted  *)
(* resource, and the resolved credential with them.                         *)
C9_ReturnsCreatedAndCredential ==
    \A p \in Procs :
      Finished(p, "create") /\ outcome[p] = "returned" =>
        /\ Cardinality(DOMAIN retval[p] \ {"credential"}) = Len(creates[p])
        /\ \A i \in 1..Len(creates[p]) :
             /\ CreatedKey(creates[p][i].kind) \in DOMAIN retval[p]
             /\ retval[p][CreatedKey(creates[p][i].kind)] = resources[p][creates[p][i].doc]
        /\ "credential" \in DOMAIN retval[p]
        /\ retval[p]["credential"] = vscode_password[p]

(* C9: on success create_session returns a dict whose keys are the kinds of *)
(* the resources submitted during the call, each holding the resource of    *)
(* that kind submitted last, every request having been accepted; the dict   *)
(* has no entry for the credential.                                         *)
C9_ReturnsCreated ==
    \A p \in Procs :
      Finished(p, "create") /\ outcome[p] = "returned" =>
        LET last(k) == CHOOSE i \in 1..Len(creates[p]) :
                         /\ CreatedKey(creates[p][i].kind) = k
                         /\ \A j \in (i + 1)..Len(creates[p]) :
                              CreatedKey(creates[p][j].kind) # k
        IN  /\ DOMAIN retval[p] =
                 {CreatedKey(creates[p][i].kind) : i \in 1..Len(creates[p])}
            /\ \A i \in 1..Len(creates[p]) : creates[p][i].status = 201
            /\ \A k \in DOMAIN retval[p] :
                 retval[p][k] = resources[p][creates[p][last(k)].doc]
            /\ DOMAIN retval[p] \subseteq {"pod", "service", "secret"}
            /\ "credential" \notin DOMAIN retval[p]

\* a call that created the three resources with a generated credential
C9_Witness ==
    \E p \in Procs :
      /\ Finished(p, "create")
      /\ outcome[p] = "returned"
      /\ DOMAIN retval[p] = {"pod", "service", "secret"}
      /\ vscode_password[p] \in GeneratedTokens

(* C10: the create requests of a create_session call are, in order, the     *)
(* Pod, Service and Secret documents of the template in template order, up  *)
(* to the loop position, every one accepted except a refused last one.      *)
C10_TemplateOrder ==
    \A p \in Procs :
      cmd[p] = "create" =>
        LET reached == IF Failed(p) THEN idx[p] ELSE idx[p] - 1
            docs == SubmittedDocs(resources[p], reached)
        IN  /\ [i \in 1..Len(creates[p]) |-> creates[p][i].doc] = docs
            /\ \A i \in 1..Len(creates[p]) :
                 /\ creates[p][i].kind = resources[p][docs[i]].kind
                 /\ creates[p][i].name = resources[p][docs[i]].name
                 /\ i < Len(creates[p]) => creates[p][i].status = 201

\* a template that is not in the reference order, with a null document
\* between the others, submitted to the end
C10_Witness ==
    \E p \in Procs :
      /\ Finished(p, "create")
      /\ outcome[p] = "returned"
      /\ [i \in 1..Len(resources[p]) |-> resources[p][i].kind] = <<"Secret", "Null", "Pod">>
      /\ [i \in 1..Len(creates[p]) |-> creates[p][i].kind] = <<"Secret", "Pod">>

(* C11: a create_session call whose manifest cannot be parsed raises the    *)
(* parse error in a step that leaves the namespace as it was, and has       *)
(* issued no create request and no delete request.                          *)
C11_ParseErrorBeforeAnyRequest ==
    [][\A p \in Procs :
         (raised'[p] = YAMLError /\ raised[p] # YAMLError) =>
           /\ cluster' = cluster
           /\ creates'[p] = <<>>
           /\ deletes'[p] = <<>>
           /\ created'[p] = EmptyDict
           /\ outcome'[p] = "raised"]_vars

\* the parse error is raised in a namespace that holds resources but no pod
\* of the session, so that a create of its pod would have been accepted
C11_Witness ==
    \E p \in Procs :
      /\ Finished(p, "create")
      /\ raised[p] = YAMLError
      /\ ~Exists("Pod", pod_name(session_id[p]))
      /\ cluster # {}

(* C14: within one create_session call no document is submitted twice (the  *)
(* create requests are for ever later documents of the template), and once  *)
(* a create request has been refused the call can issue no create request.  *)
C14_NoRetries ==
    \A p \in Procs :
      cmd[p] = "create" =>
        /\ \A i, j \in 1..Len(creates[p]) :
             i < j => creates[p][i].doc < creates[p][j].doc
        /\ Failed(p) =>
             /\ creates[p][Len(creates[p])].status # 201
             /\ ~ENABLED CreateAccepted(p)
             /\ ~ENABLED CreateRejected(p)

\* a create request was refused with 500 while a later document of the
\* template was still to be submitted, and the call has ended
C14_Witness ==
    \E p \in Procs :
      /\ RolledBack(p)
      /\ pending[p].status = ServerError
      /\ \E j \in 1..Len(resources[p]) :
           /\ j > creates[p][Len(creates[p])].doc
           /\ resources[p][j].kind \in KindSet

(* C18: a create_session call whose first create request was refused with  *)
(* a name conflict (the resource was in the namespace before the call      *)
(* submitted anything, so the call did not create it) has ended with that  *)
(* resource still in the namespace.                                        *)
C18_PreexistingKept ==
    \A p \in Procs :
      (RolledBack(p) /\ creates[p][1].status = Conflict) =>
        Exists(creates[p][1].kind, creates[p][1].name)

\* the name carries the session id right after its prefix
NameOfSession(name, sid) ==
    Len(name) >= 1 + Len(sid) /\ SubSeq(name, 2, 1 + Len(sid)) = sid
\* the part of the namespace the requests of a call for `sid` can read or
\* change: the answers the call gets depend on nothing else
NamespaceOf(sid) == {r \in cluster : NameOfSession(r.name, sid)}

(* C12: while create_session calls for different session ids interleave,    *)
(* every create and delete request of a call names a resource of its own    *)
(* session, and the resources of a call's session change only in the steps  *)
(* of that call, so that the answers it gets, and its outcome, are those of *)
(* the call running alone.                                                  *)
C12_NoInterference ==
    [][\A p \in Procs :
         cmd[p] = "create" =>
           /\ \A i \in 1..Len(creates'[p]) :
                NameOfSession(creates'[p][i].name, session_id[p])
           /\ \A i \in 1..Len(deletes'[p]) :
                NameOfSession(deletes'[p][i].name, session_id[p])
           /\ (pc'[p] = pc[p] /\ idx'[p] = idx[p]) =>
                NamespaceOf(session_id[p])' = NamespaceOf(session_id[p])]_vars

\* a call has rolled back and the server deleted a resource for it, while a
\* call for another session is in its loop with resources of its own created
C12_Witness ==
    \E p, q \in Procs :
      /\ RolledBack(p)
      /\ 200 \in Statuses(deletes[p])
      /\ cmd[q] = "create" /\ pc[q] = "create_loop"
      /\ session_id[q] # session_id[p]
      /\ creates[q] # <<>>
      /\ NamespaceOf(session_id[q]) # {}

(* C13: two delete_session calls name the same pod, the same service or    *)
(* the same secret exactly when their session ids are equal: the names are *)
(* a function of the id, and for different ids the pod names differ, the   *)
(* service names differ and the secret names differ.                       *)
C13_NamesInjective ==
    \A p, q \in Procs :
      \A i \in 1..Len(deletes[p]), j \in 1..Len(deletes[q]) :
        deletes[p][i].kind = deletes[q][j].kind =>
          (deletes[p][i].name = deletes[q][j].name <=> session_id[p] = session_id[q])

\* both calls have named their three resources, the ids differ, and the pod
\* name of one call is the secret name of the other
C13_Witness ==
    \E p, q \in Procs :
      /\ session_id[p] # session_id[q]
      /\ Len(deletes[p]) = 3 /\ Len(deletes[q]) = 3
      /\ deletes[p][1].kind = "Pod" /\ deletes[q][3].kind = "Secret"
      /\ deletes[p][1].name = deletes[q][3].name

\* get_session_status has returned to a caller whose create_session for the
\* same session id had returned just before
StatusAfterCreateDone(p) ==
    Finished(p, "status") /\ user_id[p] # NoUser

(* C15: get_session_status called right after a create_session that        *)
(* returned gives a status, not None, whose session_id is the requested    *)
(* one and whose user_id is the user_id of the create request.             *)
C15_RoundTrip ==
    \A p \in Procs :
      StatusAfterCreateDone(p) =>
        /\ session_status[p] # None
        /\ session_status[p].session_id = session_id[p]
        /\ session_status[p].user_id = user_id[p]

(* C15, amended: the same when the template rendered the Pod document of   *)
(* the session and the API server answered the read request; when the read *)
(* request was refused, get_session_status returned None.                  *)
C15_RoundTripWhenAnswered ==
    \A p \in Procs :
      StatusAfterCreateDone(p) =>
        /\ (/\ \E i \in 1..Len(resources[p]) : resources[p][i].kind = "Pod"
            /\ pod[p].code # ServerError) =>
             /\ session_status[p] # None
             /\ session_status[p].session_id = session_id[p]
             /\ session_status[p].user_id = user_id[p]
        /\ pod[p].code = ServerError => session_status[p] = None

\* the status of a session created for bob was read back while a pod of
\* another client was in the namespace
C15_Witness ==
    \E p \in Procs :
      /\ StatusAfterCreateDone(p)
      /\ user_id[p] = "bob"
      /\ \E i \in 1..Len(resources[p]) : resources[p][i].kind = "Pod"
      /\ pod[p].code = 200
      /\ session_status[p] # None
      /\ \E r \in Labelled : r.name # pod_name(session_id[p])

(* C16: a get_session_status call that has ended returned None if the      *)
(* namespace has no pod with the canonical pod name of the session, and    *)
(* otherwise a status whose phase is the phase of the pod and whose        *)
(* container sequence is empty when no container statuses are reported.    *)
C16_StatusReflectsPod ==
    \A p \in Procs :
      Finished(p, "status") =>
        IF ~Exists("Pod", pod_name(session_id[p]))
        THEN session_status[p] = None
        ELSE /\ session_status[p] # None
             /\ session_status[p].phase = pod[p].phase
             /\ pod[p].container_statuses = <<>> =>
                  session_status[p].containers = <<>>

(* C16, amended: None if there is no such pod or the read request was      *)
(* refused; when the API server returned the pod, a status with the phase  *)
(* it reported and one entry per container status it reported, none when   *)
(* it reported none.                                                       *)
C16_StatusReflectsAnswer ==
    \A p \in Procs :
      Finished(p, "status") =>
        /\ ~Exists("Pod", pod_name(session_id[p])) => session_status[p] = None
        /\ pod[p].code = ServerError => session_status[p] = None
        /\ pod[p].code = 200 =>
             /\ Exists("Pod", pod_name(session_id[p]))
             /\ session_status[p] # None
             /\ session_status[p].phase = pod[p].phase
             /\ Len(session_status[p].containers) = Len(pod[p].container_statuses)
             /\ \A i \in 1..Len(pod[p].container_statuses) :
                  /\ session_status[p].containers[i].name
                       = pod[p].container_statuses[i].name
                  /\ session_status[p].containers[i].ready
                       = pod[p].container_statuses[i].ready
                  /\ session_status[p].containers[i].restart_count
                       = pod[p].container_statuses[i].restart_count

\* the status of a pod that is pending, with no container status reported,
\* was returned by a status command run from the command line
C16_Witness ==
    \E p \in Procs :
      /\ Finished(p, "status")
      /\ user_id[p] = NoUser
      /\ pod[p].code = 200
      /\ pod[p].phase = "Pending"
      /\ pod[p].container_statuses = <<>>
      /\ session_status[p].containers = <<>>

\* list_sessions ends in this step
ListEnds(p) == pc[p] = "list_pods" /\ pc'[p] = "done"
\* what list_sessions returned and printed is one entry and one row per pod
\* of `pods`, a label that is absent being shown as N/A
ListsExactly(p, pods) ==
    /\ Len(items'[p]) = Cardinality(pods)
    /\ {items'[p][i].metadata : i \in 1..Len(items'[p])} = pods
    /\ Len(printed'[p]) = Len(items'[p])
    /\ \A i \in 1..Len(items'[p]) :
         /\ printed'[p][i].session_id =
              (IF items'[p][i].metadata.session = NoSession THEN <<"N/A">>
               ELSE items'[p][i].metadata.session)
         /\ printed'[p][i].user_id =
              (IF items'[p][i].metadata.user = NoUser THEN "N/A"
               ELSE items'[p][i].metadata.user)

(* C17: list_sessions ends without raising; it returns the empty sequence  *)
(* when the namespace has no pod labelled as a lab environment, and        *)
(* otherwise one entry per such pod, a missing session-id or user-id label *)
(* being shown as a sentinel.                                              *)
C17_ListsEveryLabelledPod ==
    [][\A p \in Procs :
         ListEnds(p) =>
           /\ outcome'[p] = "returned" /\ raised'[p] = NoError
           /\ ListsExactly(p, {r \in cluster : r.kind = "Pod" /\ r.app})]_vars

(* C17, amended: the same when the API server answered the list request;   *)
(* when it refused it, list_sessions returns the empty sequence, again     *)
(* without raising.                                                        *)
C17_ListsWhenAnswered ==
    [][\A p \in Procs :
         ListEnds(p) =>
           /\ outcome'[p] = "returned" /\ raised'[p] = NoError
           /\ IF report'[p] = "error"
              THEN items'[p] = <<>>
              ELSE ListsExactly(p, {r \in cluster : r.kind = "Pod" /\ r.app})]_vars

\* list_sessions returned two pods, one of a session and one that has
\* neither label and is shown with both sentinels
C17_Witness ==
    \E p \in Procs :
      /\ Finished(p, "list")
      /\ Len(items[p]) = 2
      /\ \E i, j \in 1..2 :
           /\ printed[p][i].session_id = <<"N/A">> /\ printed[p][i].user_id = "N/A"
           /\ printed[p][j].session_id \in SessionIds
           /\ printed[p][j].user_id \in UserIds

(* C19: every step of get_session_status and of list_sessions leaves the   *)
(* pods, services and secrets of the namespace as they are and issues no   *)
(* create and no delete request, and a create_session call that returns    *)
(* has issued no delete request.                                           *)
C19_ReadsChangeNothing ==
    [][\A p \in Procs :
         /\ (cmd'[p] \in {"status", "list"} /\ pc'[p] # pc[p]) =>
              /\ cluster' = cluster
              /\ creates' = creates
              /\ deletes' = deletes
         /\ (cmd'[p] = "create" /\ outcome'[p] = "returned") =>
              deletes'[p] = <<>>]_vars

\* list_sessions ended in a namespace that holds a session with its three
\* resources and a labelled pod without the session-id label
C19_Witness ==
    \E p \in Procs :
      /\ Finished(p, "list")
      /\ report[p] = "table"
      /\ \E sid \in SessionIds : Cardinality(SessionResources(sid)) = 3
      /\ \E r \in Labelled : r.session = NoSession
      /\ creates[p] = <<>> /\ deletes[p] = <<>>

====
